---- MODULE Spec2Model ----
(***************************************************************************)
(* Repeated prisoners' dilemma engine of src/main.rs: the Strategy trait   *)
(* and its implementations, RepeatedPrisonersDilemma (new,                 *)
(* play_next_round, calculate_score) and the runner main().                *)
(*                                                                         *)
(* Two specifications share the state:                                     *)
(*   Spec      the generic engine RepeatedPrisonersDilemma<P1, P2> driven  *)
(*             by an arbitrary caller, for every pair of strategies;       *)
(*   MainSpec  the runner main(): AlwaysCooperate against AlwaysDefect     *)
(*             for NUM_TURNS rounds, then the final score.                 *)
(***************************************************************************)
EXTENDS Integers, Sequences, FiniteSets, TLC

\* ---------------------------------------------------------------- bounds
\* Largest number of play_next_round calls the generic caller makes.
MaxRounds == 4

\* Largest number of calculate_score calls the generic caller makes.
MaxScoreCalls == 2

\* -------------------------------------------------------------- constants
NUM_TURNS == 200

COOPERATE_PAYOUT == 10

DEFECT_PAYOUT == 2

NARC_OUT_OPPONENT_PAYOUT == 20

GOT_NARCED_OUT_PAYOUT == -5

\* enum CooperateOrDefect
Cooperate == "Cooperate"

Defect == "Defect"

CooperateOrDefect == {Cooperate, Defect}

\* ------------------------------------------------------------- strategies
\* The implementors of trait Strategy that may be bound to P1 and P2.
\* AnyStrategy stands for an arbitrary implementor of the trait.
Strategies == {"AlwaysCooperate", "AlwaysDefect", "TitForTat", "AnyStrategy"}

\* const NAME of the implementors the source names.
NAME(P) ==
    CASE P = "AlwaysCooperate" -> "Always Cooperate"
      [] P = "AlwaysDefect"    -> "Always Defect"

AlwaysCooperateNextMove(my_moves, their_moves) == Cooperate

AlwaysDefectReturnsCooperate(my_moves, their_moves) == Cooperate

AlwaysDefectNextMove(my_moves, their_moves) == Defect

\* Tit-for-tat: Cooperate on the first round, afterwards the last element
\* of their_moves.
TitForTatNextMove(my_moves, their_moves) ==
    IF their_moves = <<>> THEN Cooperate ELSE their_moves[Len(their_moves)]

\* Static dispatch P::next_move(my_moves, their_moves): the set of moves the
\* call can return.  An arbitrary implementor can return either move.
NextMove(P, my_moves, their_moves) ==
    CASE P = "AlwaysCooperate" -> {AlwaysCooperateNextMove(my_moves, their_moves)}
      [] P = "AlwaysDefect"    -> {AlwaysDefectNextMove(my_moves, their_moves)}
      [] P = "TitForTat"       -> {TitForTatNextMove(my_moves, their_moves)}
      [] P = "AnyStrategy"     -> CooperateOrDefect

\* ------------------------------------------------------------------ state
VARIABLES
    pc,              \* position of the caller: "harness" | "start" | "loop" | "done"
    P1,              \* strategy bound to type parameter P1
    P2,              \* strategy bound to type parameter P2
    player_1_moves,  \* self.player_1_moves
    player_2_moves,  \* self.player_2_moves
    turn,            \* number of play_next_round calls made so far
    calls,           \* arguments of the two next_move calls of the last round
    out,             \* lines written to standard output
    scores           \* values returned by calculate_score, with the call's turn

vars == <<pc, P1, P2, player_1_moves, player_2_moves, turn, calls, out, scores>>

\* -------------------------------------------------------- calculate_score
\* The fold's closure with one arm's two payouts exchanged.
ScoreStepArmExchanged(acc, m1, m2) ==
    CASE m1 = Cooperate /\ m2 = Cooperate ->
            <<acc[1] + COOPERATE_PAYOUT, acc[2] + COOPERATE_PAYOUT>>
      [] m1 = Cooperate /\ m2 = Defect ->
            <<acc[1] + GOT_NARCED_OUT_PAYOUT, acc[2] + NARC_OUT_OPPONENT_PAYOUT>>
      [] m1 = Defect /\ m2 = Cooperate ->
            <<acc[1] + GOT_NARCED_OUT_PAYOUT, acc[2] + NARC_OUT_OPPONENT_PAYOUT>>
      [] m1 = Defect /\ m2 = Defect ->
            <<acc[1] + DEFECT_PAYOUT, acc[2] + DEFECT_PAYOUT>>

\* The fold's closure with the victim's payout of one arm taken from the
\* mutual-defection constant.
ScoreStepWrongConstant(acc, m1, m2) ==
    CASE m1 = Cooperate /\ m2 = Cooperate ->
            <<acc[1] + COOPERATE_PAYOUT, acc[2] + COOPERATE_PAYOUT>>
      [] m1 = Cooperate /\ m2 = Defect ->
            <<acc[1] + DEFECT_PAYOUT, acc[2] + NARC_OUT_OPPONENT_PAYOUT>>
      [] m1 = Defect /\ m2 = Cooperate ->
            <<acc[1] + NARC_OUT_OPPONENT_PAYOUT, acc[2] + GOT_NARCED_OUT_PAYOUT>>
      [] m1 = Defect /\ m2 = Defect ->
            <<acc[1] + DEFECT_PAYOUT, acc[2] + DEFECT_PAYOUT>>

\* The closure of the fold: |(p1, p2), moves| match moves { ... }
ScoreStep(acc, m1, m2) ==
    CASE m1 = Cooperate /\ m2 = Cooperate ->
            <<acc[1] + COOPERATE_PAYOUT, acc[2] + COOPERATE_PAYOUT>>
      [] m1 = Cooperate /\ m2 = Defect ->
            <<acc[1] + GOT_NARCED_OUT_PAYOUT, acc[2] + NARC_OUT_OPPONENT_PAYOUT>>
      [] m1 = Defect /\ m2 = Cooperate ->
            <<acc[1] + NARC_OUT_OPPONENT_PAYOUT, acc[2] + GOT_NARCED_OUT_PAYOUT>>
      [] m1 = Defect /\ m2 = Defect ->
            <<acc[1] + DEFECT_PAYOUT, acc[2] + DEFECT_PAYOUT>>

\* Length of iter().zip(..): zip stops at the shorter sequence.
ZipLen(moves1, moves2) ==
    IF Len(moves1) <= Len(moves2) THEN Len(moves1) ELSE Len(moves2)

\* .fold(acc, closure) over the zipped pairs lo..hi, in order: the closure
\* is applied to pair lo first and to pair hi last, each application taking
\* the accumulator the previous one returned.  The range is folded as its
\* lower half followed by its upper half, which is the same left-to-right
\* fold evaluated with logarithmic nesting: the accumulator returned by the
\* lower half is a value (bound as `lower') before the upper half starts.
RECURSIVE Fold(_, _, _, _, _)
Fold(acc, moves1, moves2, lo, hi) ==
    IF lo > hi THEN acc
    ELSE IF lo = hi THEN ScoreStep(acc, moves1[lo], moves2[lo])
    ELSE LET mid == (lo + hi) \div 2
         IN  CHOOSE upper \in {Fold(lower, moves1, moves2, mid + 1, hi) :
                                  lower \in {Fold(acc, moves1, moves2, lo, mid)}} : TRUE

\* The value calculate_score returns for the given histories.
ScoreOf(moves1, moves2) ==
    Fold(<<0, 0>>, moves1, moves2, 1, ZipLen(moves1, moves2))

\* calculate_score that consumes the histories while folding them.
CalculateScoreDraining ==
    /\ scores' = Append(scores, [turn   |-> turn,
                                 result |-> ScoreOf(player_1_moves, player_2_moves)])
    /\ player_1_moves' = <<>>
    /\ player_2_moves' = <<>>

\* fn calculate_score(&self) -> (isize, isize): the return value is logged.
CalculateScore ==
    /\ scores' = Append(scores, [turn   |-> turn,
                                 result |-> ScoreOf(player_1_moves, player_2_moves)])
    /\ UNCHANGED <<player_1_moves, player_2_moves>>

\* -------------------------------------------------------- play_next_round
\* play_next_round that forgets the second push.
PlayNextRoundOnePush ==
    \E p1_move \in NextMove(P1, player_1_moves, player_2_moves) :
    \E p2_move \in NextMove(P2, player_2_moves, player_2_moves) :
        /\ calls' = <<[my |-> player_1_moves, their |-> player_2_moves],
                      [my |-> player_2_moves, their |-> player_2_moves]>>
        /\ out' = Append(out, <<"round", p1_move, p2_move>>)
        /\ player_1_moves' = Append(player_1_moves, p1_move)
        /\ player_2_moves' = player_2_moves
        /\ turn' = turn + 1

\* play_next_round that pushes player 2's move before asking player 1.
PlayNextRoundInterleaved ==
    \E p2_move \in NextMove(P2, player_2_moves, player_2_moves) :
    \E p1_move \in NextMove(P1, player_1_moves, Append(player_2_moves, p2_move)) :
        /\ calls' = <<[my |-> player_1_moves, their |-> Append(player_2_moves, p2_move)],
                      [my |-> player_2_moves, their |-> player_2_moves]>>
        /\ out' = Append(out, <<"round", p1_move, p2_move>>)
        /\ player_1_moves' = Append(player_1_moves, p1_move)
        /\ player_2_moves' = Append(player_2_moves, p2_move)
        /\ turn' = turn + 1

\* play_next_round that pushes each move onto the other player's history.
PlayNextRoundCrossedPush ==
    \E p1_move \in NextMove(P1, player_1_moves, player_2_moves) :
    \E p2_move \in NextMove(P2, player_2_moves, player_2_moves) :
        /\ calls' = <<[my |-> player_1_moves, their |-> player_2_moves],
                      [my |-> player_2_moves, their |-> player_2_moves]>>
        /\ out' = Append(out, <<"round", p1_move, p2_move>>)
        /\ player_1_moves' = Append(player_1_moves, p2_move)
        /\ player_2_moves' = Append(player_2_moves, p1_move)
        /\ turn' = turn + 1

\* fn play_next_round(&mut self).  Both moves are computed from the
\* histories as they are on entry; P2::next_move is given player_2_moves
\* for both of its arguments, as the source does.
PlayNextRound ==
    \E p1_move \in NextMove(P1, player_1_moves, player_2_moves) :
    \E p2_move \in NextMove(P2, player_2_moves, player_2_moves) :
        /\ calls' = <<[my |-> player_1_moves, their |-> player_2_moves],
                      [my |-> player_2_moves, their |-> player_2_moves]>>
        /\ out' = Append(out, <<"round", p1_move, p2_move>>)
        /\ player_1_moves' = Append(player_1_moves, p1_move)
        /\ player_2_moves' = Append(player_2_moves, p2_move)
        /\ turn' = turn + 1

\* ------------------------------------------------- generic engine (Spec)
\* RepeatedPrisonersDilemma::<P1, P2>::new() for any pair of strategies.
Init ==
    /\ pc = "harness"
    /\ P1 \in Strategies
    /\ P2 \in Strategies
    /\ player_1_moves = <<>>
    /\ player_2_moves = <<>>
    /\ turn = 0
    /\ calls = <<>>
    /\ out = <<>>
    /\ scores = <<>>

\* The caller plays one more round.
CallPlayNextRound ==
    /\ pc = "harness"
    /\ turn < MaxRounds
    /\ PlayNextRound
    /\ UNCHANGED <<pc, P1, P2, scores>>

\* The caller asks for the score, at any point of the game.
CallCalculateScore ==
    /\ pc = "harness"
    /\ Len(scores) < MaxScoreCalls
    /\ CalculateScore
    /\ UNCHANGED <<pc, P1, P2, turn, calls, out>>

Next == CallPlayNextRound \/ CallCalculateScore

Spec == Init /\ [][Next]_vars

\* ------------------------------------------------------ runner (MainSpec)
\* Entry of main(): nothing printed, no game constructed yet.
MainInit ==
    /\ pc = "start"
    /\ P1 = "AlwaysCooperate"
    /\ P2 = "AlwaysDefect"
    /\ player_1_moves = <<>>
    /\ player_2_moves = <<>>
    /\ turn = 0
    /\ calls = <<>>
    /\ out = <<>>
    /\ scores = <<>>

\* println!("Playing strategy {} against {}", ..) and ::new().
MainStart ==
    /\ pc = "start"
    /\ out' = Append(out, <<"start", NAME(P1), NAME(P2)>>)
    /\ player_1_moves' = <<>>
    /\ player_2_moves' = <<>>
    /\ pc' = "loop"
    /\ UNCHANGED <<P1, P2, turn, calls, scores>>

\* The loop of main running one iteration too many.
MainLoopOffByOne ==
    /\ pc = "loop"
    /\ turn <= NUM_TURNS
    /\ PlayNextRound
    /\ UNCHANGED <<pc, P1, P2, scores>>

\* One iteration of for _ in 0..NUM_TURNS { play_next_round() }.
MainLoop ==
    /\ pc = "loop"
    /\ turn < NUM_TURNS
    /\ PlayNextRound
    /\ UNCHANGED <<pc, P1, P2, scores>>

\* Loop exhausted: println!("Final score: {:?}", calculate_score()).
MainFinal ==
    /\ pc = "loop"
    /\ ~(turn < NUM_TURNS)
    /\ CalculateScore
    /\ out' = Append(out, <<"final", ScoreOf(player_1_moves, player_2_moves)>>)
    /\ pc' = "done"
    /\ UNCHANGED <<P1, P2, turn, calls>>

MainNext == MainStart \/ MainLoop \/ MainFinal

\* main is a single sequential thread: it keeps running until it returns.
MainSpec == MainInit /\ [][MainNext]_vars /\ WF_vars(MainNext)

\* ================================================================ claims

\* A history without its last move: the history on entry to the last round.
Front(s) == SubSeq(s, 1, Len(s) - 1)

\* C1: in every play_next_round, strategy 1's next_move is invoked with
\* (history_1, history_2) and strategy 2's next_move with (history_2,
\* history_1), the histories being those on entry to the round.
C1_EachPlayerGetsOwnThenOpponent ==
    turn > 0 =>
        /\ calls[1] = [my |-> Front(player_1_moves), their |-> Front(player_2_moves)]
        /\ calls[2] = [my |-> Front(player_2_moves), their |-> Front(player_1_moves)]

\* C2: tit-for-tat played through play_next_round against AlwaysDefect, in
\* either seat, cooperates in round 1 and defects in every later round.
C2_TitForTatAgainstAlwaysDefect ==
    /\ (P1 = "TitForTat" /\ P2 = "AlwaysDefect") =>
           \A k \in 1..Len(player_1_moves) :
               player_1_moves[k] = IF k = 1 THEN Cooperate ELSE Defect
    /\ (P1 = "AlwaysDefect" /\ P2 = "TitForTat") =>
           \A k \in 1..Len(player_2_moves) :
               player_2_moves[k] = IF k = 1 THEN Cooperate ELSE Defect

\* C3: after new() and R calls of play_next_round both histories have
\* length exactly R, so they have equal length between operations.
C3_HistoriesHaveLengthR ==
    /\ Len(player_1_moves) = turn
    /\ Len(player_2_moves) = turn
    /\ Len(player_1_moves) = Len(player_2_moves)

C3_Witness ==
    /\ P1 = "TitForTat"
    /\ turn = 3
    /\ Len(player_1_moves) = 3
    /\ Len(player_2_moves) = 3

\* Number of the first n rounds in which the move pair was (a, b).
RoundsWith(a, b, n) ==
    Cardinality({k \in 1..n : player_1_moves[k] = a /\ player_2_moves[k] = b})

\* The pair of totals of the fixed payoff table over the first n rounds.
TableTotals(n) ==
    LET cc == RoundsWith(Cooperate, Cooperate, n)
        cd == RoundsWith(Cooperate, Defect, n)
        dc == RoundsWith(Defect, Cooperate, n)
        dd == RoundsWith(Defect, Defect, n)
    IN  <<10 * cc - 5 * cd + 20 * dc + 2 * dd,
          10 * cc + 20 * cd - 5 * dc + 2 * dd>>

\* C4: calculate_score called after R rounds (R = 0 and partial games
\* included) returns the pair of sums of the payoff table (C,C)->(10,10),
\* (C,D)->(-5,20), (D,C)->(20,-5), (D,D)->(2,2) over the R rounds played,
\* and (0, 0) when R = 0.
C4_ScoreIsSumOfPayoffs ==
    \A k \in 1..Len(scores) :
        /\ scores[k].result = TableTotals(scores[k].turn)
        /\ scores[k].turn = 0 => scores[k].result = <<0, 0>>

C4_Witness ==
    \E k \in 1..Len(scores) :
        /\ scores[k].turn = 3
        /\ scores[k].result = <<25, 25>>
        /\ \E j \in 1..Len(scores) : scores[j].turn = 0

\* C5: in main's game, AlwaysCooperate against AlwaysDefect for 200 rounds,
\* every round produces (Cooperate, Defect) and the final score is
\* (-1000, 4000).
C5_ReferenceGame ==
    /\ \A k \in 1..Len(out) :
           out[k][1] = "round" => out[k] = <<"round", Cooperate, Defect>>
    /\ \A k \in 1..Len(player_1_moves) : player_1_moves[k] = Cooperate
    /\ \A k \in 1..Len(player_2_moves) : player_2_moves[k] = Defect
    /\ pc = "done" =>
           /\ Len(player_1_moves) = 200
           /\ Len(player_2_moves) = 200
           /\ scores[Len(scores)].result = <<-1000, 4000>>
           /\ out[Len(out)] = <<"final", <<-1000, 4000>>>>

C5_Witness ==
    /\ pc = "done"
    /\ turn = 200
    /\ Len(scores) = 1

\* C6: the per-round payoff of calculate_score is defined for all four move
\* pairs, and the payoff of (a, b) is the payoff of (b, a) with its two
\* components exchanged; in particular for every round that was played.
C6_PayoffTotalAndSymmetric ==
    /\ \A a \in CooperateOrDefect, b \in CooperateOrDefect :
           /\ ScoreStep(<<0, 0>>, a, b) \in Int \X Int
           /\ ScoreStep(<<0, 0>>, a, b)[1] = ScoreStep(<<0, 0>>, b, a)[2]
           /\ ScoreStep(<<0, 0>>, a, b)[2] = ScoreStep(<<0, 0>>, b, a)[1]
    /\ \A k \in 1..ZipLen(player_1_moves, player_2_moves) :
           ScoreOf(<<player_1_moves[k]>>, <<player_2_moves[k]>>) =
               <<ScoreOf(<<player_2_moves[k]>>, <<player_1_moves[k]>>)[2],
                 ScoreOf(<<player_2_moves[k]>>, <<player_1_moves[k]>>)[1]>>

C6_Witness ==
    /\ player_1_moves = <<Cooperate, Defect, Cooperate, Defect>>
    /\ player_2_moves = <<Defect, Cooperate, Cooperate, Defect>>
    /\ Len(scores) = 1
    /\ scores[1] = [turn |-> 4, result |-> <<27, 27>>]

\* C7: calculate_score leaves both histories unchanged, and two calls with
\* no play_next_round between them return the same pair of totals.
C7_CalculateScoreReadOnlyIdempotent ==
    /\ [][Len(scores') > Len(scores) =>
              /\ player_1_moves' = player_1_moves
              /\ player_2_moves' = player_2_moves]_vars
    /\ [](\A j \in 1..Len(scores), k \in 1..Len(scores) :
              scores[j].turn = scores[k].turn => scores[j].result = scores[k].result)

C7_Witness ==
    /\ Len(scores) = 2
    /\ scores[1] = [turn |-> 2, result |-> <<40, -10>>]
    /\ scores[2] = [turn |-> 2, result |-> <<40, -10>>]
    /\ player_1_moves = <<Defect, Defect>>

\* The output and the game at each position of main.
RunnerOrder ==
    /\ pc \in {"start", "loop", "done"}
    /\ Len(player_1_moves) = turn /\ Len(player_2_moves) = turn
    /\ pc = "start" => out = <<>> /\ turn = 0 /\ scores = <<>>
    /\ pc \in {"loop", "done"} =>
           /\ Len(out) >= 1
           /\ out[1] = <<"start", "Always Cooperate", "Always Defect">>
    /\ pc = "loop" =>
           /\ turn <= 200
           /\ Len(out) = 1 + turn
           /\ \A k \in 2..Len(out) : out[k][1] = "round"
           /\ scores = <<>>
    /\ pc = "done" =>
           /\ turn = 200
           /\ Len(out) = 202
           /\ \A k \in 2..201 : out[k][1] = "round"
           /\ out[202][1] = "final"
           /\ Len(scores) = 1
           /\ scores[1].turn = 200
           /\ out[202][2] = scores[1].result

\* C8: main terminates, and its events are in this order: the startup
\* announcement of the two names, then exactly 200 play_next_round calls one
\* after the other from the empty game, each printing one round line, then
\* one calculate_score whose result is printed as the final score; no round
\* is played after the final score.
C8_RunnerTerminatesInOrder ==
    /\ <>(pc = "done")
    /\ []RunnerOrder
    /\ [][turn' # turn =>
              /\ pc = "loop" /\ pc' = "loop"
              /\ turn' = turn + 1
              /\ Len(out') = Len(out) + 1
              /\ scores' = scores]_vars
    /\ [][pc = "done" =>
              /\ pc' = "done"
              /\ turn' = turn
              /\ player_1_moves' = player_1_moves
              /\ player_2_moves' = player_2_moves
              /\ out' = out]_vars

C8_Witness ==
    /\ pc = "done"
    /\ Len(out) = 202
    /\ out[2][1] = "round"
    /\ out[202][1] = "final"

\* One of the two histories as they stood when the last round was entered.
HistoryBeforeLastRound == {Front(player_1_moves), Front(player_2_moves)}

\* C9: in round k both next_move calls receive two slices of equal length
\* k-1, each a history as it stood after round k-1 (empty in round 1); no
\* slice holds a move of round k.
C9_SlicesArePriorHistory ==
    turn > 0 =>
        \A c \in 1..2 :
            /\ Len(calls[c].my) = turn - 1
            /\ Len(calls[c].their) = turn - 1
            /\ Len(calls[c].my) = Len(calls[c].their)
            /\ calls[c].my \in HistoryBeforeLastRound
            /\ calls[c].their \in HistoryBeforeLastRound
            /\ turn = 1 => calls[c].my = <<>> /\ calls[c].their = <<>>

C9_Witness ==
    /\ turn = 3
    /\ calls[1] = [my |-> <<Defect, Cooperate>>, their |-> <<Cooperate, Cooperate>>]
    /\ calls[2].my = <<Cooperate, Cooperate>>

\* C10: each play_next_round keeps every recorded element of both histories
\* and appends exactly one move to each: to player 1's the move strategy 1
\* returned, to player 2's the move strategy 2 returned.  No step ever
\* changes a recorded element.
C10_HistoriesAppendOnly ==
    /\ [][turn' = turn + 1 =>
              /\ Len(out') = Len(out) + 1
              /\ out'[Len(out')][1] = "round"
              /\ out'[Len(out')][2] \in NextMove(P1, calls'[1].my, calls'[1].their)
              /\ out'[Len(out')][3] \in NextMove(P2, calls'[2].my, calls'[2].their)
              /\ player_1_moves' = Append(player_1_moves, out'[Len(out')][2])
              /\ player_2_moves' = Append(player_2_moves, out'[Len(out')][3])]_vars
    /\ [][/\ Len(player_1_moves') >= Len(player_1_moves)
          /\ Len(player_2_moves') >= Len(player_2_moves)
          /\ SubSeq(player_1_moves', 1, Len(player_1_moves)) = player_1_moves
          /\ SubSeq(player_2_moves', 1, Len(player_2_moves)) = player_2_moves]_vars

C10_Witness ==
    /\ P1 = "TitForTat"
    /\ player_1_moves = <<Cooperate, Defect, Defect>>
    /\ player_2_moves = <<Defect, Defect, Cooperate>>
    /\ out[3] = <<"round", Defect, Cooperate>>

====
